---- MODULE Spec2Model ----
(***************************************************************************)
(* Model of student_dropout_smarter_app.py, a Streamlit script.  Every     *)
(* user interaction re-runs the script top to bottom; one action of Spec   *)
(* is one such pass.  The state is what survives a pass (the uploaded      *)
(* file, st.session_state, the persisted joblib file, the widgets the pass *)
(* rendered) together with what the pass showed.                           *)
(***************************************************************************)
EXTENDS Integers, Sequences, FiniteSets, TLC

None == "None"

\* ------------------------------------------------------------------ bounds
TestRows == 1        \* rows of the held-out split: accuracy is k/TestRows
MaxRuns == 2         \* train passes of one session
MaxCols == 2         \* feature columns of an arbitrary table (SpecPartition)
MaxLen == 2          \* longest score array / name list (SpecImportance)
MaxScore == 1        \* largest magnitude of a score or coefficient

\* ------------------------------------------------------------- sequences
Range(s) == {s[i] : i \in 1..Len(s)}

Injective(s) == \A i, j \in 1..Len(s) : s[i] = s[j] => i = j

SeqsUpTo(S, n) == UNION {[1..k -> S] : k \in 0..n}

Perms(n) == {p \in [1..n -> 1..n] : \A i, j \in 1..n : p[i] = p[j] => i = j}

Min(a, b) == IF a < b THEN a ELSE b

Abs(x) == IF x < 0 THEN 0 - x ELSE x

RECURSIVE Sum(_)
Sum(s) == IF s = <<>> THEN 0 ELSE Head(s) + Sum(Tail(s))

\* ------------------------------------------------------------- datasets
\* The demo table of lines 60-69 and one uploaded file, which has a text
\* column, a boolean column and no column named like a target.
Files == {"students.csv"}

Columns(d) ==
    CASE d = "demo" -> <<"Age", "CGPA", "Attendance_Percentage",
                         "Hours_Spent_on_LMS_per_Week",
                         "Psychological_Wellbeing_Score",
                         "Parental_Education_Level", "Financial_Status",
                         "Dropout_Risk">>
      [] OTHER -> <<"Gender", "Scholarship", "Result">>

\* Storage type of a column as pandas reports it.
DType(c) ==
    CASE c = "CGPA" -> "float"
      [] c \in {"Financial_Status", "Gender"} -> "object"
      [] c = "Scholarship" -> "bool"
      [] OTHER -> "int"

\* Distinct values of a text column, in the encoder's (sorted) order.
Categories(c) ==
    CASE c = "Financial_Status" -> <<"high", "low", "medium">>
      [] c = "Gender" -> <<"F", "M">>
      [] OTHER -> <<>>

\* Column names whose lower-cased form contains 'drop', 'risk' or 'out'.
TargetLike == {"Dropout_Risk"}

load_df(uploaded) == IF uploaded = None THEN None ELSE uploaded

possible_targets(d) == SelectSeq(Columns(d), LAMBDA c : c \in TargetLike)

default_target(d) ==
    IF possible_targets(d) # <<>> THEN possible_targets(d)[1] ELSE None

\* -------------------------------------------------- feature partition
DTypes == {"int", "float", "object", "category", "bool", "datetime"}

IsNumber(t) == t \in {"int", "float"}

IsObjectOrCategory(t) == t \in {"object", "category"}

FeatureCols(cols, target) == SelectSeq(cols, LAMBDA c : c # target)

numeric_cols_of(xcols, dt) == SelectSeq(xcols, LAMBDA c : IsNumber(dt[c]))

categorical_cols_of(xcols, dt) ==
    SelectSeq(xcols, LAMBDA c : IsObjectOrCategory(dt[c]))

\* ------------------------------------------------- insertion-ordered dict
\* A Python dict is a sequence of <<key, value>> entries in insertion order.
KeySet(d) == {d[i][1] : i \in 1..Len(d)}

Get(d, k) == d[CHOOSE i \in 1..Len(d) : d[i][1] = k][2]

DictSet(d, k, v) ==
    IF k \in KeySet(d)
    THEN [i \in 1..Len(d) |-> IF d[i][1] = k THEN <<k, v>> ELSE d[i]]
    ELSE Append(d, <<k, v>>)

\* --------------------------------------------------------------- catalog
Catalog == <<"Logistic Regression", "Random Forest", "Gradient Boosting",
             "Decision Tree", "SVM", "KNN", "Naive Bayes">>

CatalogIndex(name) == CHOOSE i \in 1..Len(Catalog) : Catalog[i] = name

\* Which fitted attribute the learner of estimators[name] exposes.
Exposes(name) ==
    CASE name \in {"Random Forest", "Gradient Boosting", "Decision Tree"}
           -> "feature_importances_"
      [] name = "Logistic Regression" -> "coef_"
      [] OTHER -> "none"

\* ------------------------------------------------- feature importances
\* A score is the exact rational num/den (np.mean divides by the row count).
Rat(n, d) == [num |-> n, den |-> d]

RatLeq(a, b) == a.num * b.den <= b.num * a.den

Column(m, j) == [i \in 1..Len(m) |-> Abs(m[i][j])]

\* Lines 178-188.  A fitted learner is [attr, ndim, values]: values is the
\* array as a list of rows (one row for a 1-D array).  The result is
\* [some |-> FALSE] for imp = None.
ImpOf(model_obj) ==
    IF model_obj.attr = "feature_importances_"
    THEN [some |-> TRUE,
          imp |-> [j \in 1..Len(model_obj.values[1]) |->
                      Rat(model_obj.values[1][j], 1)]]
    ELSE IF model_obj.attr = "coef_"
    THEN IF model_obj.ndim = 1
         THEN [some |-> TRUE,
               imp |-> [j \in 1..Len(model_obj.values[1]) |->
                           Rat(Abs(model_obj.values[1][j]), 1)]]
         ELSE [some |-> TRUE,
               imp |-> [j \in 1..Len(model_obj.values[1]) |->
                           Rat(Sum(Column(model_obj.values, j)),
                               Len(model_obj.values))]]
    ELSE [some |-> FALSE, imp |-> <<>>]

\* The frame of lines 189-194 before sort_values: equal lengths pair up,
\* unequal lengths are both cut to the shorter one.
ImportanceRows(feat_names, imp) ==
    IF Len(imp) = Len(feat_names)
    THEN [i \in 1..Len(imp) |-> [feature |-> feat_names[i], importance |-> imp[i]]]
    ELSE LET minlen == Min(Len(imp), Len(feat_names))
         IN  [i \in 1..minlen |->
                 [feature |-> SubSeq(feat_names, 1, minlen)[i],
                  importance |-> SubSeq(imp, 1, minlen)[i]]]

NonIncreasing(t) ==
    \A i \in 1..Len(t) - 1 : RatLeq(t[i + 1].importance, t[i].importance)

\* Mutant: the rows come out in ascending order.
SortValuesAsc(rows) ==
    {t \in {[i \in 1..Len(rows) |-> rows[p[i]]] : p \in Perms(Len(rows))} :
        \A i \in 1..Len(t) - 1 : RatLeq(t[i].importance, t[i + 1].importance)}

\* sort_values('importance', ascending=False): the default sort is not
\* stable, so every descending arrangement of the rows is a possible result.
SortValuesDesc(rows) ==
    {t \in {[i \in 1..Len(rows) |-> rows[p[i]]] : p \in Perms(Len(rows))} :
        NonIncreasing(t)}

\* Lines 159-176: names of the transformed features.  A one-hot name
\* "<col>_<category>" is the pair <<col, category>>, a plain name is <<col>>.
RECURSIVE OneHotNames(_)
OneHotNames(cats) ==
    IF cats = <<>> THEN <<>>
    ELSE [i \in 1..Len(Categories(Head(cats))) |->
             <<Head(cats), Categories(Head(cats))[i]>>]
         \o OneHotNames(Tail(cats))

Plain(cols) == [i \in 1..Len(cols) |-> <<cols[i]>>]

FeatNames(xcols, numeric_cols, categorical_cols, names_out_ok) ==
    IF numeric_cols # <<>> \/ categorical_cols # <<>>
    THEN Plain(numeric_cols) \o
         (IF categorical_cols # <<>>
          THEN IF names_out_ok THEN OneHotNames(categorical_cols)
               ELSE Plain(categorical_cols)
          ELSE <<>>)
    ELSE Plain(xcols)

\* Width of the matrix the learner is fitted on (lines 131-137, 147-150).
SeenWidth(xcols, numeric_cols, categorical_cols) ==
    IF numeric_cols # <<>> \/ categorical_cols # <<>>
    THEN Len(numeric_cols) + Len(OneHotNames(categorical_cols))
    ELSE Len(xcols)

\* ------------------------------------------------------ training loop
\* Lines 145-197 for one name.  acc is the state of the three local dicts
\* and the warnings shown; env is what the libraries do in this run.
TrainOne(name, acc, env) ==
    IF name \in env.raises
    THEN [acc EXCEPT !.warnings = @ \cup {name}]
    ELSE LET pipe == [name |-> name, run |-> env.run]
             stored == [acc EXCEPT
                 !.trained_models = DictSet(@, name, pipe),
                 !.results = DictSet(@, name,
                     [accuracy |-> env.accuracy[name], preds |-> env.run])]
         IN  IF ImpOf(env.model_obj[name]).some
             THEN [stored EXCEPT !.feature_importances =
                      DictSet(@, name, env.sorted[name])]
             ELSE stored

\* Mutant: the first failure ends the loop.
RECURSIVE TrainLoopBreak(_, _, _)
TrainLoopBreak(names, acc, env) ==
    IF names = <<>> THEN acc
    ELSE IF Head(names) \in env.raises
    THEN TrainOne(Head(names), acc, env)
    ELSE TrainLoopBreak(Tail(names), TrainOne(Head(names), acc, env), env)

RECURSIVE TrainLoop(_, _, _)
TrainLoop(names, acc, env) ==
    IF names = <<>> THEN acc
    ELSE TrainLoop(Tail(names), TrainOne(Head(names), acc, env), env)

EmptyDicts ==
    [trained_models |-> <<>>, results |-> <<>>, feature_importances |-> <<>>,
     warnings |-> {}]

\* Mutant: the dicts in session state are updated, not replaced.
SaveToSessionStateMerge(ss, loop, run) ==
    [keys |-> ss.keys \cup {"trained_models", "results", "feature_importances",
                            "X_test", "y_test"},
     trained_models |->
         SelectSeq(ss.trained_models,
                   LAMBDA e : e[1] \notin KeySet(loop.trained_models))
         \o loop.trained_models,
     results |->
         SelectSeq(ss.results, LAMBDA e : e[1] \notin KeySet(loop.results))
         \o loop.results,
     feature_importances |->
         SelectSeq(ss.feature_importances,
                   LAMBDA e : e[1] \notin KeySet(loop.feature_importances))
         \o loop.feature_importances,
     X_test |-> run,
     y_test |-> run]

\* Lines 199-204: the five keys are assigned, whatever was there before.
SaveToSessionState(ss, loop, run) ==
    [keys |-> ss.keys \cup {"trained_models", "results", "feature_importances",
                            "X_test", "y_test"},
     trained_models |-> loop.trained_models,
     results |-> loop.results,
     feature_importances |-> loop.feature_importances,
     X_test |-> run,
     y_test |-> run]

\* Mutant: among equal maxima the last entry wins.
BestLast(res) ==
    LET i == CHOOSE i \in 1..Len(res) :
                 /\ \A j \in 1..Len(res) : res[j][2].accuracy <= res[i][2].accuracy
                 /\ \A j \in (i + 1)..Len(res) :
                       res[j][2].accuracy < res[i][2].accuracy
    IN  res[i][1]

\* Line 211: max(items, key=accuracy)[0] is the first entry, in the dict's
\* iteration order, whose accuracy no entry exceeds.
Best(res) ==
    LET i == CHOOSE i \in 1..Len(res) :
                 /\ \A j \in 1..Len(res) : res[j][2].accuracy <= res[i][2].accuracy
                 /\ \A j \in 1..(i - 1) : res[j][2].accuracy < res[i][2].accuracy
    IN  res[i][1]

\* ---------------------------------------------------------- risk banner
\* Mutant: the thresholds are inclusive.
RiskBannerInclusive(prob) ==
    IF prob >= 700 THEN {"high"}
    ELSE IF prob >= 300 THEN {"medium"}
    ELSE {"low"}

\* Lines 290-295 on a probability in thousandths (0.7 is 700, 0.3 is 300);
\* the result is the set of banners written.
RiskBanner(prob) ==
    IF prob > 700 THEN {"high"}
    ELSE IF prob > 300 THEN {"medium"}
    ELSE {"low"}

\* ================================================================ state
VARIABLES
    uploaded_file,   \* value of the file uploader: None or a file
    df,              \* dataset the last pass worked on; None if it had none
    target_col,      \* what the target selectbox returned in the last pass
    algos,           \* the multiselect's value at the last train click
    session_state,   \* st.session_state: the keys set and their values
    dumped,          \* pipeline held by best_dropout_model.joblib
    runs,            \* train passes so far (names the objects of a run)
    rendered,        \* widgets the last pass put on the page
    reached,         \* sections the last pass executed
    messages,        \* what the last pass showed: <<kind, text>>
    outcome,         \* how the last pass ended: "end", "stop" or "error"
    clicked,         \* the interaction that triggered the last pass
    fit_failed,      \* names whose fit or predict raised in the last pass
    fn_in,           \* argument of the function under study (function specs)
    fn_out,          \* its result
    fn_done          \* whether it has been applied

vars == <<uploaded_file, df, target_col, algos, session_state, dumped, runs,
          rendered, reached, messages, outcome, clicked, fit_failed,
          fn_in, fn_out, fn_done>>

NoPipe == [name |-> None, run |-> 0]

EmptySessionState ==
    [keys |-> {}, trained_models |-> <<>>, results |-> <<>>,
     feature_importances |-> <<>>, X_test |-> 0, y_test |-> 0]

\* What an interaction hands to the pass it triggers.
NoEvent ==
    [kind |-> "rerun", target |-> None, algos |-> <<>>, raises |-> {},
     accuracy |-> <<>>, model_obj |-> <<>>, names_out_ok |-> TRUE,
     sorted |-> <<>>, chosen_model |-> None, has_proba |-> FALSE, prob |-> 0]

\* Lines 42-71: the page when the script stops for lack of a dataset.
StopAtLoader ==
    [df |-> None, target_col |-> None, session_state |-> session_state,
     dumped |-> dumped, rendered |-> {"file_uploader", "demo_btn"},
     reached |-> {"loader"}, messages |-> {<<"info", "no dataset">>},
     outcome |-> "stop"]

\* Lines 79-84: the page when the script stops for lack of a target.
StopAtTarget(d, base) ==
    [df |-> d, target_col |-> None, session_state |-> session_state,
     dumped |-> dumped, rendered |-> base \cup {"target_select"},
     reached |-> {"loader", "target"},
     messages |-> {<<"error", "select a target">>}, outcome |-> "stop"]

\* Line 81: the selectbox keeps the user's choice while it stays on the page
\* with the same options, and starts from default_target otherwise.
TargetValue(d, ev) ==
    IF ev.kind = "select" THEN ev.target
    ELSE IF "target_select" \in rendered /\ df = d THEN target_col
    ELSE default_target(d)

\* Lines 139-206: what a train click stores and shows.
StoreRun(ss, loop, run) ==
    [ss |-> SaveToSessionState(ss, loop, run),
     messages |-> {<<"warning", n>> : n \in loop.warnings}
                  \cup {<<"success", "trained">>}]

Trained(ev) ==
    StoreRun(session_state,
             TrainLoop(ev.algos, EmptyDicts,
                       [raises |-> ev.raises, accuracy |-> ev.accuracy,
                        model_obj |-> ev.model_obj, sorted |-> ev.sorted,
                        run |-> runs + 1]),
             runs + 1)

\* Whether the prediction section offers its form (line 264).
PredictionEnabled(ss) == "trained_models" \in ss.keys

\* Whether the Save best model button is offered (line 209).
SaveOffered(ss) == "results" \in ss.keys

\* Lines 215-259: the right panel.
Reporter(ss) ==
    IF "results" \in ss.keys /\ ss.results # <<>>
    THEN {<<"chart", "accuracy">>, <<"chart", "confusion">>} \cup
         (IF "feature_importances" \in ss.keys /\ ss.feature_importances # <<>>
          THEN {<<"chart", "importance">>} ELSE {})
    ELSE {<<"info", "no results">>}

\* Lines 279-295: a submitted form.
Predicted(ev) ==
    {<<"predicted", ev.chosen_model>>} \cup
    (IF ev.has_proba THEN {<<"risk", b>> : b \in RiskBanner(ev.prob)} ELSE {})

\* Lines 261-295: the prediction section, after the two panels.
Prediction(p, ev) ==
    IF ~PredictionEnabled(p.session_state)
    THEN [p EXCEPT !.messages = @ \cup {<<"info", "train models first">>}]
    ELSE IF ev.kind # "predict"
    THEN [p EXCEPT !.rendered = @ \cup {"model_select", "predict_form"}]
    ELSE IF ev.chosen_model \notin KeySet(p.session_state.trained_models)
    THEN \* st.session_state['trained_models'][None] raises KeyError
         [p EXCEPT !.rendered = @ \cup {"model_select", "predict_form"},
                   !.reached = @ \cup {"model_lookup"},
                   !.messages = @ \cup {<<"exception", "KeyError">>},
                   !.outcome = "error"]
    ELSE [p EXCEPT !.rendered = @ \cup {"model_select", "predict_form"},
                   !.reached = @ \cup {"model_lookup", "predict"},
                   !.messages = @ \cup Predicted(ev)]

\* Lines 208-259: the Save best model button, then the right panel.
SaveAndReport(p, ev) ==
    IF ~(ev.kind = "save" /\ SaveOffered(p.session_state))
    THEN [p EXCEPT !.reached = @ \cup {"reporter", "prediction"},
                   !.messages = @ \cup Reporter(p.session_state)]
    ELSE IF p.session_state.results = <<>>
    THEN \* max() of an empty sequence raises ValueError
         [p EXCEPT !.reached = @ \cup {"save_best"},
                   !.messages = @ \cup {<<"exception", "ValueError">>},
                   !.outcome = "error"]
    ELSE [p EXCEPT !.dumped = Get(p.session_state.trained_models,
                                  Best(p.session_state.results)),
                   !.reached = @ \cup {"save_best", "reporter", "prediction"},
                   !.messages = @ \cup {<<"success", "saved">>}
                                  \cup Reporter(p.session_state)]

\* Lines 86-213: the left panel up to the Save best model button.
LeftPanel(d, tc, base, ev, tr) ==
    [df |-> d, target_col |-> tc, session_state |-> tr.ss, dumped |-> dumped,
     rendered |-> base \cup {"target_select", "algos_select", "train_btn"} \cup
                  (IF SaveOffered(tr.ss) THEN {"save_btn"} ELSE {}),
     reached |-> {"loader", "target", "resolve", "train_panel"} \cup
                 (IF ev.kind = "train" THEN {"training"} ELSE {}),
     messages |-> tr.messages, outcome |-> "end"]

Continue(p, ev) == IF p.outcome = "error" THEN p ELSE Prediction(p, ev)

\* Lines 86-295, once a dataset and a target are there.
FullPass(d, tc, base, ev) ==
    Continue(SaveAndReport(
                 LeftPanel(d, tc, base, ev,
                           IF ev.kind = "train" THEN Trained(ev)
                           ELSE [ss |-> session_state, messages |-> {}]),
                 ev),
             ev)

\* Mutant: the script goes on without a target.
AfterTargetNoStop(d, tc, base, ev) == FullPass(d, tc, base, ev)

AfterTarget(d, tc, base, ev) ==
    IF tc = None THEN StopAtTarget(d, base) ELSE FullPass(d, tc, base, ev)

AfterLoader(loaded, d, ev) ==
    IF d = None THEN StopAtLoader
    ELSE AfterTarget(d, TargetValue(d, ev),
                     {"file_uploader"} \cup
                     (IF loaded = None THEN {"demo_btn"} ELSE {}),
                     ev)

\* One pass of the script over the uploader's value up and the event ev.
Script(up, ev) ==
    AfterLoader(load_df(up),
                IF load_df(up) = None /\ ev.kind = "demo" THEN "demo"
                ELSE load_df(up),
                ev)

Commit(up, ev, r) ==
    /\ uploaded_file' = up
    /\ df' = r.df
    /\ target_col' = r.target_col
    /\ session_state' = r.session_state
    /\ dumped' = r.dumped
    /\ rendered' = r.rendered
    /\ reached' = r.reached
    /\ messages' = r.messages
    /\ outcome' = r.outcome
    /\ clicked' = ev.kind
    /\ runs' = IF "training" \in r.reached THEN runs + 1 ELSE runs
    /\ algos' = IF "training" \in r.reached THEN ev.algos ELSE algos
    /\ fit_failed' = IF "training" \in r.reached THEN ev.raises ELSE {}
    /\ UNCHANGED <<fn_in, fn_out, fn_done>>

RunScript(up, ev) == Commit(up, ev, Script(up, ev))

\* The page of a fresh session: the first pass has no file and no click.
FreshSession ==
    /\ uploaded_file = None
    /\ df = None
    /\ target_col = None
    /\ algos = <<>>
    /\ session_state = EmptySessionState
    /\ dumped = NoPipe
    /\ runs = 0
    /\ rendered = {"file_uploader", "demo_btn"}
    /\ reached = {"loader"}
    /\ messages = {<<"info", "no dataset">>}
    /\ outcome = "stop"
    /\ clicked = "rerun"
    /\ fit_failed = {}

Init ==
    /\ FreshSession
    /\ fn_in = <<>>
    /\ fn_out = <<>>
    /\ fn_done = TRUE

\* ---------------------------------------------------------- interactions
\* Lines 99-104 and 159-176 for dataset d with target tc.
ResolvedNames(d, tc, names_out_ok) ==
    LET xcols == FeatureCols(Columns(d), tc)
        dt == [c \in Range(xcols) |-> DType(c)]
    IN  FeatNames(xcols, numeric_cols_of(xcols, dt),
                  categorical_cols_of(xcols, dt), names_out_ok)

FittedWidth(d, tc) ==
    LET xcols == FeatureCols(Columns(d), tc)
        dt == [c \in Range(xcols) |-> DType(c)]
    IN  SeenWidth(xcols, numeric_cols_of(xcols, dt),
                  categorical_cols_of(xcols, dt))

\* Line 107: the multiselect starts with these two options selected.
default_algos == {"Logistic Regression", "Random Forest"}

\* Values of the multiselect in the modelled sessions: the user removes
\* default entries and puts them back, in either order.  The value lists the
\* options in the order they were selected.
Selections == {a \in SeqsUpTo(default_algos, Cardinality(default_algos)) :
                 Injective(a)}

\* Score arrays a learner fitted on n columns may expose in a session run.
FittedScores(n) == {[i \in 1..n |-> i]}

FittedLearner(name, scores) ==
    [attr |-> Exposes(name), ndim |-> IF Exposes(name) = "coef_" THEN 2 ELSE 1,
     values |-> <<scores>>]

Upload(f) ==
    /\ f # uploaded_file
    /\ RunScript(f, NoEvent)

RemoveFile ==
    /\ uploaded_file # None
    /\ RunScript(None, NoEvent)

Rerun == RunScript(uploaded_file, NoEvent)

ClickDemo ==
    /\ "demo_btn" \in rendered
    /\ RunScript(uploaded_file, [NoEvent EXCEPT !.kind = "demo"])

SelectTarget(t) ==
    /\ "target_select" \in rendered
    /\ t \in {None} \cup Range(Columns(df))
    /\ t # target_col
    /\ RunScript(uploaded_file, [NoEvent EXCEPT !.kind = "select", !.target = t])

\* One run: any selection a, any subset bad of it failing in fit or predict,
\* any accuracy for the others, any outcome of the sort among those in tabs.
TrainRun(ok, scores, tabs) ==
    \E a \in Selections :
    \E bad \in SUBSET Range(a) :
    \E acc \in [Range(a) \ bad -> 0..TestRows] :
    \E tables \in [Range(a) \ bad -> tabs] :
        RunScript(uploaded_file,
            [NoEvent EXCEPT !.kind = "train", !.algos = a, !.raises = bad,
                !.accuracy = acc, !.names_out_ok = ok, !.sorted = tables,
                !.model_obj = [n \in Range(a) |-> FittedLearner(n, scores)]])

TrainOn(d, tc) ==
    IF tc = None
    THEN RunScript(uploaded_file, [NoEvent EXCEPT !.kind = "train"])
    ELSE \E ok \in BOOLEAN, scores \in FittedScores(FittedWidth(d, tc)) :
            TrainRun(ok, scores,
                SortValuesDesc(ImportanceRows(ResolvedNames(d, tc, ok),
                    [i \in 1..Len(scores) |-> Rat(scores[i], 1)])))

TrainTarget(d) ==
    IF d = None THEN None
    ELSE TargetValue(d, [NoEvent EXCEPT !.kind = "train"])

ClickTrain ==
    /\ "train_btn" \in rendered
    /\ runs < MaxRuns
    /\ TrainOn(load_df(uploaded_file), TrainTarget(load_df(uploaded_file)))

ClickSave ==
    /\ "save_btn" \in rendered
    /\ RunScript(uploaded_file, [NoEvent EXCEPT !.kind = "save"])

\* Probabilities a submitted form may get back, in thousandths.
Probabilities == {300, 700, 701}

SubmitPredict ==
    /\ "predict_form" \in rendered
    /\ \E m \in (IF session_state.trained_models = <<>> THEN {None}
                 ELSE KeySet(session_state.trained_models)),
          hp \in BOOLEAN, p \in Probabilities :
         /\ ~hp => p = 0
         /\ RunScript(uploaded_file,
                [NoEvent EXCEPT !.kind = "predict", !.chosen_model = m,
                                !.has_proba = hp, !.prob = p])

Next ==
    \/ \E f \in Files : Upload(f)
    \/ RemoveFile
    \/ Rerun
    \/ ClickDemo
    \/ \E t \in {None} \cup UNION {Range(Columns(d)) : d \in Files \cup {"demo"}} :
          SelectTarget(t)
    \/ ClickTrain
    \/ ClickSave
    \/ SubmitPredict

Spec == Init /\ [][Next]_vars

\* ====================================================== function specs
\* Each applies one function of the script to every argument within the
\* bounds; the session does not move.
Idle ==
    UNCHANGED <<uploaded_file, df, target_col, algos, session_state, dumped,
                runs, rendered, reached, messages, outcome, clicked,
                fit_failed>>

\* ----- risk banner (lines 288-295): fn_in is the probability in thousandths
Probs == 0..1000

RiskInit ==
    /\ FreshSession
    /\ fn_in \in Probs
    /\ fn_out = {}
    /\ fn_done = FALSE

ShowRisk ==
    /\ ~fn_done
    /\ fn_out' = RiskBanner(fn_in)
    /\ fn_done' = TRUE
    /\ UNCHANGED fn_in
    /\ Idle

SpecRisk == RiskInit /\ [][ShowRisk]_vars

\* ----- feature partition (lines 99-104): fn_in is a table of columns
\* 1..n with the storage type of each after fillna, and its target column.
\* fillna leaves the type of a column without missing values as it was.
Tables ==
    UNION {[cols : {[i \in 1..n |-> i]}, dtype : [1..n -> DTypes],
            target : 1..n] : n \in 1..(MaxCols + 1)}

Partition(t) ==
    [xcols |-> FeatureCols(t.cols, t.target),
     numeric_cols |-> numeric_cols_of(FeatureCols(t.cols, t.target), t.dtype),
     categorical_cols |->
         categorical_cols_of(FeatureCols(t.cols, t.target), t.dtype)]

PartitionInit ==
    /\ FreshSession
    /\ fn_in \in Tables
    /\ fn_out = Partition([cols |-> <<1>>, dtype |-> <<"int">>, target |-> 1])
    /\ fn_done = FALSE

Resolve ==
    /\ ~fn_done
    /\ fn_out' = Partition(fn_in)
    /\ fn_done' = TRUE
    /\ UNCHANGED fn_in
    /\ Idle

SpecPartition == PartitionInit /\ [][Resolve]_vars

\* ----- importance extraction (lines 178-194): fn_in is a fitted learner
\* and the resolved feature names.
Arrays(vals) == UNION {[1..k -> vals] : k \in 0..MaxLen}

Matrices(vals) ==
    UNION {{<<r>> : r \in [1..k -> vals]} \cup
           {<<r1, r2>> : r1 \in [1..k -> vals], r2 \in [1..k -> vals]} :
           k \in 0..MaxLen}

Learners ==
    {[attr |-> "none", ndim |-> 1, values |-> <<<<>>>>]} \cup
    {[attr |-> "feature_importances_", ndim |-> 1, values |-> <<r>>] :
        r \in Arrays(0..MaxScore)} \cup
    {[attr |-> "coef_", ndim |-> 1, values |-> <<r>>] :
        r \in Arrays((0 - MaxScore)..MaxScore)} \cup
    {[attr |-> "coef_", ndim |-> 2, values |-> m] :
        m \in Matrices((0 - MaxScore)..MaxScore)}

NameLists == {[i \in 1..n |-> <<i>>] : n \in 0..MaxLen}

NoTable == [stored |-> FALSE, table |-> <<>>]

ImportanceInit ==
    /\ FreshSession
    /\ fn_in \in [model_obj : Learners, feat_names : NameLists]
    /\ fn_out = NoTable
    /\ fn_done = FALSE

Extract ==
    /\ ~fn_done
    /\ IF ImpOf(fn_in.model_obj).some
       THEN \E t \in SortValuesDesc(ImportanceRows(fn_in.feat_names,
                                        ImpOf(fn_in.model_obj).imp)) :
               fn_out' = [stored |-> TRUE, table |-> t]
       ELSE fn_out' = NoTable
    /\ fn_done' = TRUE
    /\ UNCHANGED fn_in
    /\ Idle

SpecImportance == ImportanceInit /\ [][Extract]_vars

\* =============================================================== claims
TrainPass == clicked = "train" /\ "training" \in reached

Fitted == Range(algos) \ fit_failed

Position(seq, x) == CHOOSE i \in 1..Len(seq) : seq[i] = x

\* C1: after every train action the model map and the results map hold
\* exactly the names selected in this run whose fit and predict did not
\* raise, the importance map's names are among them, every stored object was
\* made by this run, and the stored held-out split is this run's.
C1_TrainReplacesStore ==
    TrainPass =>
        /\ KeySet(session_state.trained_models) = Fitted
        /\ KeySet(session_state.results) = Fitted
        /\ KeySet(session_state.feature_importances) \subseteq Fitted
        /\ Len(session_state.trained_models) = Cardinality(Fitted)
        /\ Len(session_state.results) = Cardinality(Fitted)
        /\ \A n \in Fitted :
              /\ Get(session_state.trained_models, n) = [name |-> n, run |-> runs]
              /\ Get(session_state.results, n).preds = runs
        /\ session_state.X_test = runs
        /\ session_state.y_test = runs

\* A second train action whose run dropped a model the first run had stored
\* (the joblib file still holds that first-run pipeline).
C1_Witness ==
    /\ TrainPass
    /\ runs = 2
    /\ dumped.run = 1
    /\ dumped.name \notin KeySet(session_state.trained_models)
    /\ session_state.trained_models # <<>>

\* C2: in a train action, a name whose fit or predict raised gets a warning
\* naming it and no entry in any of the three maps, and every other selected
\* name is stored in the model map and the results map.
C2_FailureIsolated ==
    TrainPass =>
        /\ \A n \in fit_failed :
              /\ <<"warning", n>> \in messages
              /\ n \notin KeySet(session_state.trained_models)
              /\ n \notin KeySet(session_state.results)
              /\ n \notin KeySet(session_state.feature_importances)
        /\ \A n \in Range(algos) \ fit_failed :
              /\ <<"warning", n>> \notin messages
              /\ n \in KeySet(session_state.trained_models)
              /\ n \in KeySet(session_state.results)
        /\ outcome = "end"

\* The first selected name failed and the second one was stored.
C2_Witness ==
    /\ TrainPass
    /\ Len(algos) = 2
    /\ algos[1] \in fit_failed
    /\ algos[2] \in KeySet(session_state.trained_models)

SavedPass == clicked = "save" /\ "save_best" \in reached /\ outcome = "end"

TopAccuracy(n) ==
    \A m \in KeySet(session_state.results) :
        Get(session_state.results, m).accuracy
            <= Get(session_state.results, n).accuracy

\* C3 as stated: Save best model persists the pipeline with the maximum
\* accuracy and, among equal maxima, the one first in catalog order.
C3_SaveBestCatalogOrder ==
    SavedPass =>
        /\ dumped.name \in KeySet(session_state.results)
        /\ TopAccuracy(dumped.name)
        /\ dumped = Get(session_state.trained_models, dumped.name)
        /\ \A m \in KeySet(session_state.results) :
              TopAccuracy(m) => CatalogIndex(dumped.name) <= CatalogIndex(m)

\* C3 as amended: among equal maxima it is the one selected first in the
\* multiselect at the train action that stored the entries.
C3_SaveBestSelectionOrder ==
    SavedPass =>
        /\ dumped.name \in KeySet(session_state.results)
        /\ TopAccuracy(dumped.name)
        /\ dumped = Get(session_state.trained_models, dumped.name)
        /\ \A m \in KeySet(session_state.results) :
              TopAccuracy(m) => Position(algos, dumped.name) <= Position(algos, m)

\* Two entries tie and the saved one is later in the catalog.
C3_Witness ==
    /\ SavedPass
    /\ Len(session_state.results) = 2
    /\ \A m \in KeySet(session_state.results) : TopAccuracy(m)
    /\ \E m \in KeySet(session_state.results) :
          CatalogIndex(m) < CatalogIndex(dumped.name)

\* C4: no pass of a session of train and save-best actions ends in an
\* uncaught error.
C4_NoUncaughtError ==
    clicked \in {"train", "save"} => outcome # "error"

\* C5: a pass that reaches the prediction section while the store holds no
\* trained model shows 'train models first', offers no model choice and no
\* form, and a submit does not end in a failed model lookup.
C5_EmptyStoreDisablesPrediction ==
    (session_state.trained_models = <<>> /\ "prediction" \in reached) =>
        /\ <<"info", "train models first">> \in messages
        /\ "model_select" \notin rendered
        /\ "predict_form" \notin rendered
        /\ <<"exception", "KeyError">> \notin messages

AfterTargetSections ==
    {"resolve", "train_panel", "training", "save_best", "reporter",
     "prediction", "model_lookup", "predict"}

\* C6: a pass that has a dataset and finds the target unset shows the error
\* and stops before every later section, and leaves the store (and the
\* saved file) as it was.
C6_UnsetTargetHalts ==
    [][(df' # None /\ target_col' = None) =>
          /\ outcome' = "stop"
          /\ <<"error", "select a target">> \in messages'
          /\ reached' \cap AfterTargetSections = {}
          /\ session_state' = session_state
          /\ dumped' = dumped
          /\ runs' = runs]_vars

\* The user unset the target while the store held trained models.
C6_Witness ==
    /\ df # None
    /\ target_col = None
    /\ clicked = "select"
    /\ outcome = "stop"
    /\ session_state.trained_models # <<>>

\* C7: the banner depends on p alone: high above 0.7, medium above 0.3 up
\* to 0.7, low up to 0.3; exactly one banner; 0.7 is medium and 0.3 is low.
C7_RiskTiers ==
    fn_done =>
        /\ Cardinality(fn_out) = 1
        /\ ("high" \in fn_out) = (fn_in > 700)
        /\ ("medium" \in fn_out) = (fn_in > 300 /\ fn_in <= 700)
        /\ ("low" \in fn_out) = (fn_in <= 300)
        /\ fn_in = 700 => fn_out = {"medium"}
        /\ fn_in = 300 => fn_out = {"low"}

\* The boundary 0.7 got its banner.
C7_Witness == fn_done /\ fn_in = 700 /\ fn_out = {"medium"}

\* C8: the numeric list and the categorical list are disjoint and together
\* hold every feature column, whatever the storage types.
C8_PartitionCovers ==
    fn_done =>
        /\ Range(fn_out.numeric_cols) \cap Range(fn_out.categorical_cols) = {}
        /\ Range(fn_out.numeric_cols) \cup Range(fn_out.categorical_cols)
              = Range(fn_in.cols) \ {fn_in.target}

Scores == ImpOf(fn_in.model_obj).imp

\* C9: a learner with k scores against n names gets a table of min(k, n)
\* rows, each pairing the i-th name with the i-th score for a different i,
\* in non-increasing order of score; a learner exposing neither importances
\* nor coefficients gets no table.
C9_ImportanceTable ==
    fn_done =>
        /\ fn_in.model_obj.attr = "none" => ~fn_out.stored
        /\ fn_in.model_obj.attr # "none" =>
              /\ fn_out.stored
              /\ Len(fn_out.table) = Min(Len(Scores), Len(fn_in.feat_names))
              /\ \E p \in Perms(Len(fn_out.table)) :
                    \A j \in 1..Len(fn_out.table) :
                        fn_out.table[j] = [feature |-> fn_in.feat_names[p[j]],
                                           importance |-> Scores[p[j]]]
              /\ \A j \in 1..(Len(fn_out.table) - 1) :
                    fn_out.table[j].importance.num
                            * fn_out.table[j + 1].importance.den
                        >= fn_out.table[j + 1].importance.num
                            * fn_out.table[j].importance.den

\* More scores than names: the table was cut to the names.
C9_Witness ==
    /\ fn_done
    /\ fn_out.stored
    /\ Len(Scores) = 2
    /\ Len(fn_in.feat_names) = 1
    /\ Len(fn_out.table) = 1

\* C10: with no uploaded file, a train click on the page the demo request
\* produced reaches the training pipeline.
C10_TrainAfterDemo ==
    [][(uploaded_file = None /\ clicked = "demo" /\ "train_btn" \in rendered
        /\ clicked' = "train") => "training" \in reached']_vars

====
